---- MODULE Spec2Model ----
(***************************************************************************)
(* Model of ml/python-service/main.py: a FastAPI service that loads one    *)
(* pickled classifier at import time and serves it on /, /health,          *)
(* /predict, /batch-predict and /model-info.                               *)
(*                                                                         *)
(* Conventions.                                                            *)
(*   - Python's None is the empty tuple, a present Optional value v is     *)
(*     <<v>>.  A field missing from a JSON body is None as well.           *)
(*   - A float is an exact rational <<num, den>> where the code divides    *)
(*     (the profit margin), and an integer elsewhere: rounding is not      *)
(*     modelled.  Class probabilities are counted in hundredths.           *)
(*   - A computation that may raise returns [ok |-> TRUE, val |-> v] or    *)
(*     [ok |-> FALSE, err |-> str(e)].                                     *)
(*   - A DataFrame of one row is the sequence of its <<column, value>>     *)
(*     pairs, in column order.                                             *)
(***************************************************************************)
EXTENDS Integers, Sequences, FiniteSets, TLC

VARIABLES
    model,        \* the module-level artifact slot: None or <<artifact>>
    log,          \* the line the module-level load wrote to stdout
    req,          \* the request handled last: None or [endpoint, body]
    resp,         \* the response to it: None or [status, body]
    calls,        \* the artifact calls the last handler made, in order
    derived,      \* how many margin derivations the last handler attempted
    first,        \* history: an earlier /predict, None or [body, resp]
    interleaved   \* history: a batch or a failed request came after `first`

vars == <<model, log, req, resp, calls, derived, first, interleaved>>

None == <<>>
Some(v) == <<v>>

Ok(v) == [ok |-> TRUE, val |-> v]
Raise(e) == [ok |-> FALSE, err |-> e]

\* The longest batch the model submits.
MaxBatch == 2

(***************************************************************************)
(* Exact arithmetic for the one division of the program.                   *)
(***************************************************************************)
Abs(n) == IF n < 0 THEN -n ELSE n

RECURSIVE GCD(_, _)
GCD(a, b) == IF b = 0 THEN a ELSE GCD(b, a % b)

\* n / d in lowest terms, d # 0.
Rat(n, d) ==
    LET g == GCD(Abs(n), Abs(d))
        s == IF d < 0 THEN -1 ELSE 1
    IN  <<(s * n) \div g, (s * d) \div g>>

\* float / float: ZeroDivisionError on a zero divisor.
FloatDiv(n, d) ==
    IF d = 0 THEN Raise("float division by zero") ELSE Ok(Rat(n, d))

\* rational * integer
RatTimes(q, k) == Rat(q[1] * k, q[2])

(***************************************************************************)
(* ProductData: the request schema and its validation by the framework.    *)
(***************************************************************************)
DefaultReorderFrequency == 30
DefaultBrand == "Generic"
DefaultSupplier == "Default"

\* An Optional field with a default: the default replaces a missing value.
WithDefault(opt, dflt) == IF opt = None THEN dflt ELSE opt[1]

\* Mutant: ge=0 in place of gt=0.
PositivePrice_Ge(opt) == opt # None /\ opt[1] >= 0

\* Field(..., gt=0) on cost_price and selling_price.
PositivePrice(opt) == opt # None /\ opt[1] > 0

\* The body of one ProductData as pydantic accepts it.
FieldsValid(raw) ==
    /\ PositivePrice(raw.cost_price)
    /\ PositivePrice(raw.selling_price)
    /\ (raw.reorder_frequency = None \/ raw.reorder_frequency[1] >= 1)
    /\ raw.current_stock # None /\ raw.current_stock[1] >= 0
    /\ raw.minimum_stock_level # None /\ raw.minimum_stock_level[1] >= 0
    /\ raw.category # None

\* The ProductData object built from a body that passed validation.
ProductData(raw) ==
    [product_id          |-> raw.product_id,
     cost_price          |-> raw.cost_price[1],
     selling_price       |-> raw.selling_price[1],
     profit_margin       |-> IF raw.profit_margin = None THEN None
                             ELSE Some(Rat(raw.profit_margin[1], 1)),
     reorder_frequency   |-> WithDefault(raw.reorder_frequency, DefaultReorderFrequency),
     current_stock       |-> raw.current_stock[1],
     minimum_stock_level |-> raw.minimum_stock_level[1],
     category            |-> raw.category[1],
     brand               |-> WithDefault(raw.brand, DefaultBrand),
     supplier            |-> WithDefault(raw.supplier, DefaultSupplier)]

Validate(raw) ==
    IF FieldsValid(raw) THEN Ok(ProductData(raw)) ELSE Raise("validation error")

(***************************************************************************)
(* Responses.                                                              *)
(***************************************************************************)
Response(status, body) == [status |-> status, body |-> body]

HTTPException(status, detail) == Response(status, [detail |-> detail])

\* The framework's answer to a body that fails validation.
RequestValidationError == HTTPException(422, "validation error")

\* What a handler did: its response, the artifact calls it made and the
\* number of margin derivations it attempted.
Handled(r, cs, n) == [resp |-> r, calls |-> cs, derived |-> n]

Call(op, row) == [op |-> op, row |-> row]

(***************************************************************************)
(* The artifact: whatever joblib.load returned.  It is not code of the     *)
(* service; the model takes it from a family of deterministic classifiers  *)
(* that read the row by column name, reject a row whose columns are not    *)
(* the trained ones, and reject (or mishandle) categories they have not    *)
(* seen.                                                                   *)
(***************************************************************************)
TrainedColumns ==
    {"cost_price", "selling_price", "Profit margin", "reorder_frequency",
     "current_stock", "minimum_stock_level", "category", "brand", "supplier"}

Columns(row) == [i \in 1..Len(row) |-> row[i][1]]

Get(row, name) == row[CHOOSE i \in 1..Len(row) : row[i][1] = name][2]

HasColumns(row) == {row[i][1] : i \in 1..Len(row)} = TrainedColumns

\* Where an artifact fails on a category it has not seen.
FailPoints == {"predict", "predict_proba", "one_class", "no_class"}

\* Class probabilities [no-reorder, reorder] by row class, in hundredths; the
\* second table is of a classifier whose outputs are not normalised.
Calibrated == << <<90, 10>>, <<70, 30>>, <<40, 60>>, <<20, 80>> >>
Uncalibrated == << <<50, 50>>, <<60, 30>>, <<30, 60>>, <<10, 80>> >>

\* Artifacts that have seen every category (their fail point is never
\* reached, so one stands for all), and artifacts that have not seen "toys".
Artifacts ==
    { [unseen |-> {}, failAt |-> "predict", table |-> t] :
        t \in {Calibrated, Uncalibrated} }
    \cup
    { [unseen |-> {"toys"}, failAt |-> f, table |-> Calibrated] : f \in FailPoints }

\* The class of a row: understocked or not, margin positive or not.
RowClass(row) ==
    1 + (IF Get(row, "current_stock") < Get(row, "minimum_stock_level") THEN 2 ELSE 0)
      + (IF Get(row, "Profit margin")[1] > 0 THEN 1 ELSE 0)

Unseen(a, row) == Get(row, "category") \in a.unseen

\* model.predict(input_data)[0]
ArtPredict(a, row) ==
    IF ~HasColumns(row) THEN Raise("columns are missing")
    ELSE IF Unseen(a, row) /\ a.failAt = "predict"
         THEN Raise("Found unknown categories in column 0 during transform")
    ELSE Ok(IF Get(row, "current_stock") < Get(row, "minimum_stock_level")
            THEN 1 ELSE 0)

\* model.predict_proba(input_data)[0]
ArtPredictProba(a, row) ==
    IF ~HasColumns(row) THEN Raise("columns are missing")
    ELSE IF Unseen(a, row) /\ a.failAt \in {"predict", "predict_proba"}
         THEN Raise("Found unknown categories in column 0 during transform")
    ELSE IF Unseen(a, row) /\ a.failAt = "one_class" THEN Ok(<<100>>)
    ELSE IF Unseen(a, row) /\ a.failAt = "no_class" THEN Ok(<<>>)
    ELSE Ok(a.table[RowClass(row)])

(***************************************************************************)
(* Module-level load (lines 31-37).                                        *)
(***************************************************************************)
MODEL_PATH == "stock_reorder_model.pkl"

\* What joblib.load(MODEL_PATH) can do: return an artifact or raise.
LoadOutcomes ==
    {Raise("[Errno 2] No such file or directory")} \cup {Ok(a) : a \in Artifacts}

\* try: model = joblib.load(...) / except Exception: model = None
LoadModel(outcome) ==
    IF outcome.ok
    THEN [model |-> Some(outcome.val), log |-> "Model loaded successfully"]
    ELSE [model |-> None, log |-> "Warning: Could not load model"]

(***************************************************************************)
(* GET / and GET /health.                                                  *)
(***************************************************************************)
read_root(m) ==
    Handled(Response(200, [service      |-> "Stock Prediction ML Service",
                           status       |-> "running",
                           model_loaded |-> (m # None),
                           version      |-> "1.0.0"]),
            <<>>, 0)

\* Mutant: the status does not look at the slot.
health_check_AlwaysHealthy(m) ==
    Handled(Response(200, [status       |-> "healthy",
                           model_loaded |-> TRUE,
                           model_path   |-> MODEL_PATH]),
            <<>>, 0)

health_check(m) ==
    Handled(Response(200, [status       |-> IF m # None THEN "healthy" ELSE "degraded",
                           model_loaded |-> (m # None),
                           model_path   |-> MODEL_PATH]),
            <<>>, 0)

(***************************************************************************)
(* POST /predict.                                                          *)
(***************************************************************************)
\* Mutant: the derived margin is kept in state shared by the requests, and a
\* request without a margin takes the one the request before it left.
PredictMargin_Shared(data) ==
    IF data.profit_margin # None THEN Ok(data)
    ELSE IF req # None /\ req.endpoint = "/predict" /\ req.body.profit_margin # None
    THEN Ok([data EXCEPT !.profit_margin = Some(Rat(req.body.profit_margin[1], 1))])
    ELSE LET q == FloatDiv(data.selling_price - data.cost_price, data.cost_price)
         IN  IF q.ok
             THEN Ok([data EXCEPT !.profit_margin = Some(RatTimes(q.val, 100))])
             ELSE q

\* if data.profit_margin is None: data.profit_margin = (s - c) / c * 100
\* The record after the statement, or the exception it raised.
PredictMargin(data) ==
    IF data.profit_margin # None THEN Ok(data)
    ELSE LET q == FloatDiv(data.selling_price - data.cost_price, data.cost_price)
         IN  IF q.ok
             THEN Ok([data EXCEPT !.profit_margin = Some(RatTimes(q.val, 100))])
             ELSE q

\* input_data = pd.DataFrame([{...}])
PredictRow(data) ==
    << <<"cost_price", data.cost_price>>,
       <<"selling_price", data.selling_price>>,
       <<"Profit margin", data.profit_margin[1]>>,
       <<"reorder_frequency", data.reorder_frequency>>,
       <<"current_stock", data.current_stock>>,
       <<"minimum_stock_level", data.minimum_stock_level>>,
       <<"category", data.category>>,
       <<"brand", data.brand>>,
       <<"supplier", data.supplier>> >>

\* bool(prediction)
Bool(prediction) == prediction # 0

\* max(probabilities): ValueError on an empty sequence.
MaxOf(probabilities) ==
    IF Len(probabilities) = 0 THEN Raise("max() arg is an empty sequence")
    ELSE Ok(CHOOSE x \in {probabilities[i] : i \in 1..Len(probabilities)} :
              \A i \in 1..Len(probabilities) : probabilities[i] <= x)

\* probabilities[k], k counted from 0: IndexError past the end.
Item(probabilities, k) ==
    IF k + 1 \in 1..Len(probabilities) THEN Ok(probabilities[k + 1])
    ELSE Raise("index out of bounds")

\* Mutant: the two class probabilities are taken in the wrong order.
PredictionResponse_Swapped(prediction, probabilities) ==
    LET c  == MaxOf(probabilities)
        p1 == Item(probabilities, 0)
        p0 == Item(probabilities, 1)
    IN  IF ~c.ok THEN c
        ELSE IF ~p1.ok THEN p1
        ELSE IF ~p0.ok THEN p0
        ELSE Ok([reorder_required       |-> Bool(prediction),
                 confidence             |-> c.val,
                 probability_reorder    |-> p1.val,
                 probability_no_reorder |-> p0.val,
                 model_version          |-> "1.0.0"])

\* PredictionResponse(reorder_required=..., confidence=..., ...): the
\* arguments are evaluated in the order written.
PredictionResponse(prediction, probabilities) ==
    LET c  == MaxOf(probabilities)
        p1 == Item(probabilities, 1)
        p0 == Item(probabilities, 0)
    IN  IF ~c.ok THEN c
        ELSE IF ~p1.ok THEN p1
        ELSE IF ~p0.ok THEN p0
        ELSE Ok([reorder_required       |-> Bool(prediction),
                 confidence             |-> c.val,
                 probability_reorder    |-> p1.val,
                 probability_no_reorder |-> p0.val,
                 model_version          |-> "1.0.0"])

\* Mutant: no except clause; the exception leaves the handler and the
\* framework answers for it.
PredictError_Escapes(e) == HTTPException(500, "Internal Server Error")

\* except Exception as e: raise HTTPException(500, f"Prediction error: {e}")
PredictError(e) == HTTPException(500, "Prediction error: " \o e)

predict_reorder(m, data) ==
    IF m = None
    THEN Handled(HTTPException(503, "Model not loaded. Please check server configuration."),
                 <<>>, 0)
    ELSE
      LET n  == IF data.profit_margin = None THEN 1 ELSE 0
          d  == PredictMargin(data)
      IN  IF ~d.ok THEN Handled(PredictError(d.err), <<>>, n)
          ELSE
            LET row == PredictRow(d.val)
                p   == ArtPredict(m[1], row)
                c1  == <<Call("predict", row)>>
            IN  IF ~p.ok THEN Handled(PredictError(p.err), c1, n)
                ELSE
                  LET q  == ArtPredictProba(m[1], row)
                      c2 == Append(c1, Call("predict_proba", row))
                  IN  IF ~q.ok THEN Handled(PredictError(q.err), c2, n)
                      ELSE
                        LET r == PredictionResponse(p.val, q.val)
                        IN  IF ~r.ok THEN Handled(PredictError(r.err), c2, n)
                            ELSE Handled(Response(200, r.val), c2, n)

(***************************************************************************)
(* POST /batch-predict.                                                    *)
(***************************************************************************)
\* Mutant: the margin is taken over the selling price.
BatchMargin_OverSelling(product) ==
    IF product.profit_margin # None THEN Ok(product)
    ELSE LET q == FloatDiv(product.selling_price - product.cost_price,
                           product.selling_price)
         IN  IF q.ok
             THEN Ok([product EXCEPT !.profit_margin = Some(RatTimes(q.val, 100))])
             ELSE q

\* if product.profit_margin is None: product.profit_margin = (s - c) / c * 100
BatchMargin(product) ==
    IF product.profit_margin # None THEN Ok(product)
    ELSE LET q == FloatDiv(product.selling_price - product.cost_price,
                           product.cost_price)
         IN  IF q.ok
             THEN Ok([product EXCEPT !.profit_margin = Some(RatTimes(q.val, 100))])
             ELSE q

\* input_data = pd.DataFrame([{...}]) of the loop body
BatchRow(product) ==
    << <<"cost_price", product.cost_price>>,
       <<"selling_price", product.selling_price>>,
       <<"Profit margin", product.profit_margin[1]>>,
       <<"reorder_frequency", product.reorder_frequency>>,
       <<"current_stock", product.current_stock>>,
       <<"minimum_stock_level", product.minimum_stock_level>>,
       <<"category", product.category>>,
       <<"brand", product.brand>>,
       <<"supplier", product.supplier>> >>

\* Mutant: probability_reorder reads the first class probability.
BatchEntry_FirstClass(product, prediction, probabilities) ==
    LET c  == MaxOf(probabilities)
        p1 == Item(probabilities, 0)
    IN  IF ~c.ok THEN c
        ELSE IF ~p1.ok THEN p1
        ELSE Ok([product_id          |-> product.product_id,
                 reorder_required    |-> Bool(prediction),
                 confidence          |-> c.val,
                 probability_reorder |-> p1.val])

\* The dict appended to results; its values are evaluated in the order written.
BatchEntry(product, prediction, probabilities) ==
    LET c  == MaxOf(probabilities)
        p1 == Item(probabilities, 1)
    IN  IF ~c.ok THEN c
        ELSE IF ~p1.ok THEN p1
        ELSE Ok([product_id          |-> product.product_id,
                 reorder_required    |-> Bool(prediction),
                 confidence          |-> c.val,
                 probability_reorder |-> p1.val])

\* except Exception as e: raise HTTPException(500, f"Batch prediction error: {e}")
BatchError(e) == HTTPException(500, "Batch prediction error: " \o e)

\* Mutant: reorder_needed counts every result.
BatchSummary_CountsAll(products, results) ==
    [predictions    |-> results,
     total_products |-> Len(products),
     reorder_needed |-> Len(results)]

\* The dict returned after the loop.
BatchSummary(products, results) ==
    [predictions    |-> results,
     total_products |-> Len(products),
     reorder_needed |-> Cardinality({i \in 1..Len(results) :
                                       results[i].reorder_required})]

\* Mutant: the try is inside the loop; a failing record is skipped and the
\* loop goes on.
RECURSIVE BatchLoop_Skipping(_, _, _, _, _, _)
BatchLoop_Skipping(a, products, i, results, cs, n) ==
    IF i > Len(products)
    THEN Handled(Response(200, BatchSummary(products, results)), cs, n)
    ELSE
      LET product == products[i]
          n1  == n + (IF product.profit_margin = None THEN 1 ELSE 0)
          d   == BatchMargin(product)
          row == BatchRow(d.val)
          p   == ArtPredict(a, row)
          c1  == Append(cs, Call("predict", row))
          q   == ArtPredictProba(a, row)
          c2  == Append(c1, Call("predict_proba", row))
          e   == BatchEntry(d.val, p.val, q.val)
      IN  IF ~d.ok THEN BatchLoop_Skipping(a, products, i + 1, results, cs, n1)
          ELSE IF ~p.ok THEN BatchLoop_Skipping(a, products, i + 1, results, c1, n1)
          ELSE IF ~q.ok \/ ~e.ok
               THEN BatchLoop_Skipping(a, products, i + 1, results, c2, n1)
          ELSE BatchLoop_Skipping(a, products, i + 1, Append(results, e.val), c2, n1)

\* The loop from record i on, with the results, the artifact calls and the
\* derivations so far: an exception in the body leaves the loop and the try.
RECURSIVE BatchLoop(_, _, _, _, _, _)
BatchLoop(a, products, i, results, cs, n) ==
    IF i > Len(products)
    THEN Handled(Response(200, BatchSummary(products, results)), cs, n)
    ELSE
      LET product == products[i]
          n1 == n + (IF product.profit_margin = None THEN 1 ELSE 0)
          d  == BatchMargin(product)
      IN  IF ~d.ok THEN Handled(BatchError(d.err), cs, n1)
          ELSE
            LET row == BatchRow(d.val)
                p   == ArtPredict(a, row)
                c1  == Append(cs, Call("predict", row))
            IN  IF ~p.ok THEN Handled(BatchError(p.err), c1, n1)
                ELSE
                  LET q  == ArtPredictProba(a, row)
                      c2 == Append(c1, Call("predict_proba", row))
                  IN  IF ~q.ok THEN Handled(BatchError(q.err), c2, n1)
                      ELSE
                        LET e == BatchEntry(d.val, p.val, q.val)
                        IN  IF ~e.ok THEN Handled(BatchError(e.err), c2, n1)
                            ELSE BatchLoop(a, products, i + 1,
                                           Append(results, e.val), c2, n1)

\* Mutant: the slot is looked at per record, inside the loop.
batch_predict_ChecksPerRecord(m, products) ==
    IF Len(products) = 0
    THEN Handled(Response(200, BatchSummary(products, <<>>)), <<>>, 0)
    ELSE IF m = None
    THEN Handled(HTTPException(503, "Model not loaded"), <<>>, 0)
    ELSE BatchLoop(m[1], products, 1, <<>>, <<>>, 0)

batch_predict(m, products) ==
    IF m = None
    THEN Handled(HTTPException(503, "Model not loaded"), <<>>, 0)
    ELSE BatchLoop(m[1], products, 1, <<>>, <<>>, 0)

(***************************************************************************)
(* GET /model-info.                                                        *)
(***************************************************************************)
get_model_info(m) ==
    IF m = None
    THEN Handled(HTTPException(503, "Model not loaded"), <<>>, 0)
    ELSE Handled(Response(200,
             [model_type  |-> "<class 'sklearn.pipeline.Pipeline'>",
              features    |-> [numerical   |-> <<"cost_price", "selling_price",
                                                 "Profit margin", "reorder_frequency",
                                                 "current_stock", "minimum_stock_level">>,
                               categorical |-> <<"category", "brand", "supplier">>],
              performance |-> [accuracy |-> 99, precision |-> 98,
                               recall |-> 97, f1_score |-> 97]]),
           <<>>, 0)

(***************************************************************************)
(* The request bodies the model sends.                                     *)
(***************************************************************************)
\* <<cost_price, selling_price, profit_margin>>
PriceCases ==
    { <<10, 15, None>>, <<10, 15, Some(20)>>,
      <<4, 3, None>>,   <<4, 3, Some(0)>>,
      <<0, 15, None>>,  <<0, 15, Some(20)>> }

\* The other fields of a body: understocked with every default; an unusual
\* category with every field given; well stocked; a reorder_frequency below
\* its minimum; no category.
ShapeDefaults ==
    [product_id |-> Some("p1"), reorder_frequency |-> None,
     current_stock |-> Some(2), minimum_stock_level |-> Some(5),
     category |-> Some("food"), brand |-> None, supplier |-> None]
ShapeToys ==
    [product_id |-> None, reorder_frequency |-> Some(7),
     current_stock |-> Some(9), minimum_stock_level |-> Some(5),
     category |-> Some("toys"), brand |-> Some("Acme"), supplier |-> Some("S1")]
ShapeStocked ==
    [product_id |-> Some("p3"), reorder_frequency |-> Some(7),
     current_stock |-> Some(9), minimum_stock_level |-> Some(5),
     category |-> Some("food"), brand |-> Some("Acme"), supplier |-> None]
ShapeBadFrequency ==
    [product_id |-> Some("p4"), reorder_frequency |-> Some(0),
     current_stock |-> Some(2), minimum_stock_level |-> Some(5),
     category |-> Some("food"), brand |-> None, supplier |-> Some("S1")]
ShapeNoCategory ==
    [product_id |-> None, reorder_frequency |-> None,
     current_stock |-> Some(9), minimum_stock_level |-> Some(5),
     category |-> None, brand |-> None, supplier |-> None]

Shapes == {ShapeDefaults, ShapeToys, ShapeStocked, ShapeBadFrequency, ShapeNoCategory}

Raw(prices, shape) ==
    [product_id          |-> shape.product_id,
     cost_price          |-> Some(prices[1]),
     selling_price       |-> Some(prices[2]),
     profit_margin       |-> prices[3],
     reorder_frequency   |-> shape.reorder_frequency,
     current_stock       |-> shape.current_stock,
     minimum_stock_level |-> shape.minimum_stock_level,
     category            |-> shape.category,
     brand               |-> shape.brand,
     supplier            |-> shape.supplier]

RawRecords == {Raw(p, sh) : p \in PriceCases, sh \in Shapes}

\* The records batches are made of.
BatchPool ==
    { Raw(<<10, 15, None>>, ShapeDefaults),
      Raw(<<4, 3, Some(0)>>, ShapeToys),
      Raw(<<0, 15, None>>, ShapeStocked) }

Batches == UNION {[1..k -> BatchPool] : k \in 0..MaxBatch}

\* list[ProductData]: every element is validated before the handler runs.
ValidateAll(raws) ==
    IF \A i \in 1..Len(raws) : FieldsValid(raws[i])
    THEN Ok([i \in 1..Len(raws) |-> ProductData(raws[i])])
    ELSE Raise("validation error")

(***************************************************************************)
(* The service as a state machine.                                         *)
(***************************************************************************)
Request(endpoint, body) == [endpoint |-> endpoint, body |-> body]

Init ==
    /\ \E o \in LoadOutcomes :
          /\ model = LoadModel(o).model
          /\ log = LoadModel(o).log
    /\ req = None
    /\ resp = None
    /\ calls = <<>>
    /\ derived = 0
    /\ first = None
    /\ interleaved = FALSE

\* The request is answered; no handler assigns the artifact slot.
Serve(r, out) ==
    /\ req' = r
    /\ resp' = out.resp
    /\ calls' = out.calls
    /\ derived' = out.derived
    /\ UNCHANGED <<model, log>>

\* History: a batch or a failed request after the remembered /predict.
Observe(r, out) ==
    /\ first' = first
    /\ interleaved' = (interleaved \/ (/\ first # None
                                       /\ (\/ out.resp.status = 500
                                           \/ r.endpoint = "/batch-predict")))

ReadRoot ==
    \E out \in {read_root(model)} :
        LET r == Request("/", None)
        IN  Serve(r, out) /\ Observe(r, out)

HealthCheck ==
    \E out \in {health_check(model)} :
        LET r == Request("/health", None)
        IN  Serve(r, out) /\ Observe(r, out)

PredictOutcome(raw) ==
    LET v == Validate(raw)
    IN  IF v.ok THEN predict_reorder(model, v.val)
        ELSE Handled(RequestValidationError, <<>>, 0)

Predict ==
    \E raw \in RawRecords : \E out \in {PredictOutcome(raw)} :
        LET r == Request("/predict", raw)
        IN  /\ Serve(r, out)
            /\ \/ /\ first = None
                  /\ first' = [body |-> raw, resp |-> out.resp]
                  /\ interleaved' = FALSE
               \/ Observe(r, out)

BatchOutcome(raws) ==
    LET v == ValidateAll(raws)
    IN  IF v.ok THEN batch_predict(model, v.val)
        ELSE Handled(RequestValidationError, <<>>, 0)

BatchPredict ==
    \E raws \in Batches : \E out \in {BatchOutcome(raws)} :
        LET r == Request("/batch-predict", raws)
        IN  Serve(r, out) /\ Observe(r, out)

ModelInfo ==
    \E out \in {get_model_info(model)} :
        LET r == Request("/model-info", None)
        IN  Serve(r, out) /\ Observe(r, out)

Next == ReadRoot \/ HealthCheck \/ Predict \/ BatchPredict \/ ModelInfo

Spec == Init /\ [][Next]_vars

(***************************************************************************)
(* Properties.  They read the state: the request handled last, the         *)
(* response to it, and the artifact calls its handler made.                *)
(***************************************************************************)
Loaded == model # None

IsRequest(endpoint) == req # None /\ req.endpoint = endpoint

\* A /predict whose body passed validation.
ValidPredict == IsRequest("/predict") /\ FieldsValid(req.body)

\* A /batch-predict whose every record passed validation.
ValidBatch ==
    IsRequest("/batch-predict") /\ \A i \in 1..Len(req.body) : FieldsValid(req.body[i])

\* The artifact rejects (or answers with too few classes) the row of this
\* record: in the family above, the records of a category it has not seen.
Rejected(raw) == raw.category[1] \in model[1].unseen

\* The records of the batch handled last that the artifact rejects.
RejectedAt == {i \in 1..Len(req.body) : Rejected(req.body[i])}

\* The record whose row the j-th artifact call of a batch is about.
RecordOf(j) == (j + 1) \div 2

ExpectedColumns ==
    <<"cost_price", "selling_price", "Profit margin", "reorder_frequency",
      "current_stock", "minimum_stock_level", "category", "brand", "supplier">>

\* The row is the feature row of the body raw.
IsRowOf(row, raw) ==
    /\ Columns(row) = ExpectedColumns
    /\ row[1][2] = raw.cost_price[1]
    /\ row[2][2] = raw.selling_price[1]
    /\ LET pm == row[3][2]
       IN  IF raw.profit_margin = None
           THEN /\ pm[2] > 0
                /\ pm[1] * raw.cost_price[1]
                     = (raw.selling_price[1] - raw.cost_price[1]) * 100 * pm[2]
                /\ (raw.cost_price[1] = 10 /\ raw.selling_price[1] = 15
                       => pm = <<50, 1>>)
           ELSE pm = <<raw.profit_margin[1], 1>>
    /\ row[4][2] = (IF raw.reorder_frequency = None THEN 30
                    ELSE raw.reorder_frequency[1])
    /\ row[5][2] = raw.current_stock[1]
    /\ row[6][2] = raw.minimum_stock_level[1]
    /\ row[7][2] = raw.category[1]
    /\ row[8][2] = (IF raw.brand = None THEN "Generic" ELSE raw.brand[1])
    /\ row[9][2] = (IF raw.supplier = None THEN "Default" ELSE raw.supplier[1])

\* C1: while the artifact slot is unset, /predict, /batch-predict and
\* /model-info answer every validated request (an empty batch included) with
\* 503, without calling the artifact and without deriving a margin.
C1_UnavailableModel ==
    (~Loaded /\ (ValidPredict \/ ValidBatch \/ IsRequest("/model-info")))
        => /\ resp.status = 503
           /\ DOMAIN resp.body = {"detail"}
           /\ calls = <<>>
           /\ derived = 0

C1_Witness ==
    /\ ~Loaded
    /\ IsRequest("/batch-predict")
    /\ req.body = <<>>
    /\ resp.status = 503

\* C2: no step changes the artifact slot (nor the startup line); / and
\* /health always succeed, and /health says "healthy", model_loaded=true
\* exactly when the startup load succeeded, "degraded", false otherwise.
C2_HealthReport ==
    /\ IsRequest("/") =>
          /\ resp.status = 200
          /\ resp.body.model_loaded = (log = "Model loaded successfully")
    /\ IsRequest("/health") =>
          /\ resp.status = 200
          /\ IF log = "Model loaded successfully"
             THEN resp.body.status = "healthy" /\ resp.body.model_loaded = TRUE
             ELSE resp.body.status = "degraded" /\ resp.body.model_loaded = FALSE

C2_SlotWrittenOnce ==
    /\ [][model' = model /\ log' = log]_vars
    /\ [](C2_HealthReport)

C2_Witness ==
    /\ IsRequest("/health")
    /\ ~Loaded
    /\ resp.body.status = "degraded"
    /\ first # None
    /\ interleaved

\* C3: every row handed to the artifact, by /predict and by /batch-predict,
\* has the nine trained columns in the trained order, the margin derived as
\* (selling_price - cost_price) / cost_price * 100 when none was given (50
\* for 10 and 15) and the given one otherwise, and every other value as
\* validated.
C3_FeatureRow ==
    /\ IsRequest("/predict") =>
          \A j \in 1..Len(calls) : IsRowOf(calls[j].row, req.body)
    /\ IsRequest("/batch-predict") =>
          \A j \in 1..Len(calls) : IsRowOf(calls[j].row, req.body[RecordOf(j)])

C3_Witness ==
    /\ IsRequest("/batch-predict")
    /\ Len(calls) = 4
    /\ Get(calls[1].row, "Profit margin") = <<50, 1>>
    /\ req.body[2].profit_margin # None
    /\ Get(calls[4].row, "Profit margin") = <<0, 1>>

\* A body with cost_price 0 and no profit_margin.
ZeroCost(raw) == raw.cost_price = Some(0) /\ raw.profit_margin = None

\* C4: a /predict body, or a batch holding a record, with cost_price 0 and
\* no profit_margin gets a client error: no 500, no success, no artifact
\* call, no division.
C4_ZeroCostPrice ==
    (\/ IsRequest("/predict") /\ ZeroCost(req.body)
     \/ IsRequest("/batch-predict") /\ \E i \in 1..Len(req.body) : ZeroCost(req.body[i]))
        => /\ resp.status \in 400..499
           /\ calls = <<>>
           /\ derived = 0

C4_Witness ==
    /\ Loaded
    /\ IsRequest("/predict")
    /\ ZeroCost(req.body)
    /\ req.body.category # None
    /\ resp.status = 422

\* The fields of a PredictionResult.
PredictionResultFields ==
    {"reorder_required", "confidence", "probability_reorder",
     "probability_no_reorder", "model_version"}

\* What str(e) can be when the artifact fails on a row.
Causes ==
    {"Found unknown categories in column 0 during transform",
     "max() arg is an empty sequence", "index out of bounds"}

\* C5: with the artifact loaded, a /predict whose row the artifact rejects
\* (predict raises, predict_proba raises, or fewer than two probabilities
\* come back) ends in one 500 whose detail carries the cause, and a /predict
\* whose row it accepts gets a PredictionResult, whatever failed before.
C5_EngineFailure ==
    (Loaded /\ ValidPredict) =>
        IF Rejected(req.body)
        THEN /\ resp.status = 500
             /\ DOMAIN resp.body = {"detail"}
             /\ resp.body.detail \in {"Prediction error: " \o c : c \in Causes}
             /\ (model[1].failAt = "predict" => Len(calls) = 1)
        ELSE /\ resp.status = 200
             /\ DOMAIN resp.body = PredictionResultFields

C5_Witness ==
    /\ first # None
    /\ first.resp.status = 500
    /\ model[1].failAt = "one_class"
    /\ interleaved
    /\ IsRequest("/predict")
    /\ resp.status = 200

\* C6: a batch in which no record fails is answered with one entry per
\* record, in input order (entry i carries record i's product_id and the
\* artifact's answer to record i's row), total_products the number of
\* records and reorder_needed the number of entries with reorder_required;
\* the empty batch gives [], 0, 0.
C6_BatchSummary ==
    (Loaded /\ ValidBatch /\ RejectedAt = {}) =>
        /\ resp.status = 200
        /\ DOMAIN resp.body = {"predictions", "total_products", "reorder_needed"}
        /\ Len(resp.body.predictions) = Len(req.body)
        /\ \A i \in 1..Len(req.body) :
              /\ resp.body.predictions[i].product_id = req.body[i].product_id
              /\ IsRowOf(calls[2 * i].row, req.body[i])
              /\ resp.body.predictions[i].reorder_required
                    = (ArtPredict(model[1], calls[2 * i].row).val # 0)
        /\ resp.body.total_products = Len(req.body)
        /\ resp.body.reorder_needed
              = Cardinality({i \in 1..Len(resp.body.predictions) :
                               resp.body.predictions[i].reorder_required})
        /\ (req.body = <<>> =>
              /\ resp.body.predictions = <<>>
              /\ resp.body.total_products = 0
              /\ resp.body.reorder_needed = 0)

C6_Witness ==
    /\ IsRequest("/batch-predict")
    /\ resp.status = 200
    /\ Len(req.body) = MaxBatch
    /\ resp.body.reorder_needed = 1
    /\ resp.body.predictions[1].reorder_required = FALSE

\* C7: when the artifact fails on record k of a batch (and on none before),
\* the answer is one 500 with nothing but its detail, the artifact was
\* called for records 1..k only, in order, and never for a later one.
C7_BatchAbort ==
    (Loaded /\ ValidBatch /\ RejectedAt # {}) =>
        LET k == CHOOSE i \in RejectedAt : \A j \in RejectedAt : i <= j
        IN  /\ resp.status = 500
            /\ DOMAIN resp.body = {"detail"}
            /\ resp.body.detail \in {"Batch prediction error: " \o c : c \in Causes}
            /\ Len(calls) \in {2 * k - 1, 2 * k}
            /\ \A j \in 1..Len(calls) : IsRowOf(calls[j].row, req.body[RecordOf(j)])

C7_Witness ==
    /\ Loaded
    /\ ValidBatch
    /\ Len(req.body) = 2
    /\ RejectedAt = {2}
    /\ resp.status = 500
    /\ Len(calls) = 4

\* C8: a successful /predict reports the artifact's first probability as
\* probability_no_reorder, its second as probability_reorder, the truth of
\* its label as reorder_required and the larger of the two reported
\* probabilities as confidence; two probabilities that sum to 1 are
\* reported summing to 1.
C8_ResponseShape ==
    (IsRequest("/predict") /\ resp.status = 200) =>
        LET row   == calls[2].row
            label == ArtPredict(model[1], row).val
            proba == ArtPredictProba(model[1], row).val
            body  == resp.body
        IN  /\ calls[1] = Call("predict", row)
            /\ calls[2].op = "predict_proba"
            /\ body.probability_no_reorder = proba[1]
            /\ body.probability_reorder = proba[2]
            /\ body.reorder_required = (label # 0)
            /\ body.confidence >= body.probability_reorder
            /\ body.confidence >= body.probability_no_reorder
            /\ body.confidence \in {body.probability_reorder, body.probability_no_reorder}
            /\ (proba[1] + proba[2] = 100
                  => body.probability_reorder + body.probability_no_reorder = 100)

C8_Witness ==
    /\ IsRequest("/predict")
    /\ resp.status = 200
    /\ resp.body.reorder_required
    /\ resp.body.probability_reorder = 80
    /\ resp.body.probability_no_reorder = 20
    /\ resp.body.confidence = 80

C10_BatchMatchesSingle ==
    (Loaded /\ ValidBatch /\ RejectedAt = {}) =>
        /\ resp.status = 200
        /\ Len(resp.body.predictions) = Len(req.body)
        /\ \A i \in 1..Len(req.body) :
              LET entry  == resp.body.predictions[i]
                  single == PredictOutcome(req.body[i]).resp
              IN  /\ single.status = 200
                  /\ DOMAIN entry = {"product_id", "reorder_required",
                                      "confidence", "probability_reorder"}
                  /\ entry.reorder_required = single.body.reorder_required
                  /\ entry.confidence = single.body.confidence
                  /\ entry.probability_reorder = single.body.probability_reorder
                  /\ entry.product_id = req.body[i].product_id
        /\ \A j \in 1..Len(calls) :
              \A c \in 1..Len(calls[j].row) : calls[j].row[c][1] # "product_id"

C10_Witness ==
    /\ IsRequest("/batch-predict")
    /\ resp.status = 200
    /\ Len(req.body) = 2
    /\ resp.body.predictions[1].product_id = Some("p1")
    /\ resp.body.predictions[2].product_id = None
    /\ resp.body.predictions[1].probability_reorder
          # resp.body.predictions[2].probability_reorder

====
